---- MODULE Spec2Model ----
(***************************************************************************)
(* aya/src/maps/sock_map.rs: SockMap, a validated view over a raw map      *)
(* handle (Map) of type BPF_MAP_TYPE_SOCKMAP.                              *)
(*                                                                         *)
(* State: the raw handle (its definition fields and optional descriptor),  *)
(* the view built over it (if any), the kernel table the descriptor names, *)
(* and a record of the last operation: its arguments, its return value and *)
(* the collaborator calls it issued, in order.                             *)
(***************************************************************************)
EXTENDS Integers, Sequences, FiniteSets

(* ----------------------------- constants ------------------------------ *)

\* generated::bpf_map_type::BPF_MAP_TYPE_SOCKMAP
BPF_MAP_TYPE_SOCKMAP == 15
\* mem::size_of::<u32>()
SizeOfU32 == 4
\* mem::size_of::<RawFd>()  (RawFd = c_int)
SizeOfRawFd == 4

(* ------------------------------- bounds ------------------------------- *)

\* largest max_entries a handle declares
MaxCap == 4

\* type tags a handle may carry: the sock map tag and two others
MapTypes == {1, BPF_MAP_TYPE_SOCKMAP, BPF_MAP_TYPE_SOCKMAP + 1}
\* declared key / value sizes
Sizes == {2, 4, 8}
\* declared capacities
Capacities == 1..MaxCap
\* absent descriptor (Option::None) and the descriptor of the loaded map
NoFd == -1
MapFd == 3
\* indices a caller may pass: in range, at the edge and beyond it
Indices_ == 0..(MaxCap + 1)
\* descriptors a caller may pass as value, all of them open sockets
OpenSockets == {10, 11}
TcpFds == OpenSockets
\* update flags: BPF_ANY, BPF_NOEXIST, BPF_EXIST
Flags == 0..2
\* an empty slot of the kernel table
NoEntry == -1

VARIABLES
    map,        \* the raw handle: obj.def.{map_type,key_size,value_size,max_entries}, fd
    view,       \* "none", or the access mode of the SockMap that wraps the handle
    kcap,       \* capacity of the kernel table, fixed when the map was created
    table,      \* kernel table: index -> stored descriptor or NoEntry
    op,         \* the last operation and its arguments
    ret,        \* what the last operation returned
    calls,      \* the calls the last operation made, in order
    held,       \* indices for which the caller saw a set succeed and no later clear succeed
    scenario    \* how many calls of Script have been replayed on a fresh view, or -1

vars == <<map, view, kcap, table, op, ret, calls, held, scenario>>

(* ------------------------------ results ------------------------------- *)

Ok == [kind |-> "Ok"]
InvalidMapType(t) == [kind |-> "InvalidMapType", map_type |-> t]
InvalidKeySize(s, e) == [kind |-> "InvalidKeySize", size |-> s, expected |-> e]
InvalidValueSize(s, e) == [kind |-> "InvalidValueSize", size |-> s, expected |-> e]
MapNotLoaded == [kind |-> "MapNotLoaded"]
OutOfBounds(i, n) == [kind |-> "OutOfBounds", index |-> i, max_entries |-> n]
SyscallError(c, code, e) == [kind |-> "SyscallError", call |-> c, code |-> code, io_error |-> e]

IsOk(r) == r.kind = "Ok"

Call(name, args) == [call |-> name, args |-> args]

(* --------------------------- collaborators ---------------------------- *)

\* Map::fd_or_err: the open descriptor, or MapNotLoaded
fd_or_err(m) ==
    IF m.fd = NoFd THEN MapNotLoaded ELSE [kind |-> "Ok", fd |-> m.fd]

\* sys::bpf_map_update_elem on a sock map: Ok or (code, io_error), and the table after
bpf_map_update_elem(fd, key, value, flags, t, cap) ==
    LET fail(e) == [res |-> [kind |-> "Err", code |-> -1, io_error |-> e], table |-> t] IN
    IF fd # MapFd THEN fail("EBADF")
    ELSE IF flags > 2 THEN fail("EINVAL")
    ELSE IF key >= cap THEN fail("E2BIG")
    ELSE IF value \notin OpenSockets THEN fail("EBADF")
    ELSE IF flags = 1 /\ t[key] # NoEntry THEN fail("EEXIST")
    ELSE IF flags = 2 /\ t[key] = NoEntry THEN fail("ENOENT")
    ELSE [res |-> Ok, table |-> [t EXCEPT ![key] = value]]

\* sys::bpf_map_delete_elem on a sock map
bpf_map_delete_elem(fd, key, t, cap) ==
    LET fail(e) == [res |-> [kind |-> "Err", code |-> -1, io_error |-> e], table |-> t] IN
    IF fd # MapFd THEN fail("EBADF")
    ELSE IF key >= cap THEN fail("EINVAL")
    ELSE IF t[key] = NoEntry THEN fail("ENOENT")
    ELSE [res |-> Ok, table |-> [t EXCEPT ![key] = NoEntry]]

\* the key enumeration call: the first populated key after `key` (-1: from the start)
bpf_map_get_next_key(key, t, cap) ==
    LET after == {k \in 0..(cap - 1) : k > key /\ t[k] # NoEntry} IN
    IF after = {} THEN [kind |-> "Err", code |-> -1, io_error |-> "ENOENT"]
    ELSE [kind |-> "Ok", key |-> CHOOSE k \in after : \A j \in after : k <= j]

RECURSIVE KeysFrom(_, _, _)
KeysFrom(key, t, cap) ==
    LET n == bpf_map_get_next_key(key, t, cap) IN
    IF n.kind = "Ok" THEN <<n.key>> \o KeysFrom(n.key, t, cap) ELSE <<>>

\* MapKeys::new(&map) run to exhaustion: the items it yields
MapKeys(m, t, cap) ==
    IF IsOk(fd_or_err(m))
    THEN [kind |-> "MapKeys", items |-> KeysFrom(-1, t, cap), error |-> "none"]
    ELSE [kind |-> "MapKeys", items |-> <<>>, error |-> "MapNotLoaded"]

(* ------------------------------ SockMap ------------------------------- *)

\* new with the key size compared before the type tag
new_keyFirst(m) ==
    IF m.key_size # SizeOfU32 THEN InvalidKeySize(m.key_size, SizeOfU32)
    ELSE IF m.map_type # BPF_MAP_TYPE_SOCKMAP THEN InvalidMapType(m.map_type)
    ELSE IF m.value_size # SizeOfRawFd THEN InvalidValueSize(m.value_size, SizeOfRawFd)
    ELSE IF ~IsOk(fd_or_err(m)) THEN fd_or_err(m)
    ELSE Ok

\* new reporting the expected key size in place of the declared one
new_keyExpected(m) ==
    IF m.map_type # BPF_MAP_TYPE_SOCKMAP THEN InvalidMapType(m.map_type)
    ELSE IF m.key_size # SizeOfU32 THEN InvalidKeySize(SizeOfU32, SizeOfU32)
    ELSE IF m.value_size # SizeOfRawFd THEN InvalidValueSize(m.value_size, SizeOfRawFd)
    ELSE IF ~IsOk(fd_or_err(m)) THEN fd_or_err(m)
    ELSE Ok

\* new resolving the descriptor before it compares the value size
new_fdBeforeValue(m) ==
    IF m.map_type # BPF_MAP_TYPE_SOCKMAP THEN InvalidMapType(m.map_type)
    ELSE IF m.key_size # SizeOfU32 THEN InvalidKeySize(m.key_size, SizeOfU32)
    ELSE IF ~IsOk(fd_or_err(m)) THEN fd_or_err(m)
    ELSE IF m.value_size # SizeOfRawFd THEN InvalidValueSize(m.value_size, SizeOfRawFd)
    ELSE Ok

\* new without the descriptor check
new_noFd(m) ==
    IF m.map_type # BPF_MAP_TYPE_SOCKMAP THEN InvalidMapType(m.map_type)
    ELSE IF m.key_size # SizeOfU32 THEN InvalidKeySize(m.key_size, SizeOfU32)
    ELSE IF m.value_size # SizeOfRawFd THEN InvalidValueSize(m.value_size, SizeOfRawFd)
    ELSE Ok

\* SockMap::new: Ok (a view is produced) or the error
new(m) ==
    IF m.map_type # BPF_MAP_TYPE_SOCKMAP THEN InvalidMapType(m.map_type)
    ELSE IF m.key_size # SizeOfU32 THEN InvalidKeySize(m.key_size, SizeOfU32)
    ELSE IF m.value_size # SizeOfRawFd THEN InvalidValueSize(m.value_size, SizeOfRawFd)
    ELSE IF ~IsOk(fd_or_err(m)) THEN fd_or_err(m)
    ELSE Ok

\* check_bounds that lets index = max_entries through
check_bounds_offByOne(m, index) ==
    IF index > m.max_entries THEN OutOfBounds(index, m.max_entries) ELSE Ok

\* check_bounds that rejects only indices past twice the capacity
check_bounds_double(m, index) ==
    IF index >= 2 * m.max_entries THEN OutOfBounds(index, m.max_entries) ELSE Ok

\* SockMap::check_bounds
check_bounds(m, index) ==
    IF index >= m.max_entries THEN OutOfBounds(index, m.max_entries) ELSE Ok

\* set that drops the gateway's error and reports success
set_swallow(m, t, cap, index, tcp_fd, flags) ==
    LET f == fd_or_err(m)
        b == check_bounds(m, index)
        g == bpf_map_update_elem(f.fd, index, tcp_fd, flags, t, cap)
        c1 == <<Call("fd_or_err", <<>>)>>
        c2 == c1 \o <<Call("check_bounds", <<index>>)>>
        c3 == c2 \o <<Call("bpf_map_update_elem", <<f.fd, index, tcp_fd, flags>>)>>
    IN  IF ~IsOk(f) THEN [ret |-> f, table |-> t, calls |-> c1]
        ELSE IF ~IsOk(b) THEN [ret |-> b, table |-> t, calls |-> c2]
        ELSE [ret |-> Ok, table |-> g.table, calls |-> c3]

\* set that checks the bounds before it resolves the descriptor
set_boundsFirst(m, t, cap, index, tcp_fd, flags) ==
    LET f == fd_or_err(m)
        b == check_bounds(m, index)
        g == bpf_map_update_elem(f.fd, index, tcp_fd, flags, t, cap)
        c1 == <<Call("check_bounds", <<index>>)>>
        c2 == c1 \o <<Call("fd_or_err", <<>>)>>
        c3 == c2 \o <<Call("bpf_map_update_elem", <<f.fd, index, tcp_fd, flags>>)>>
    IN  IF ~IsOk(b) THEN [ret |-> b, table |-> t, calls |-> c1]
        ELSE IF ~IsOk(f) THEN [ret |-> f, table |-> t, calls |-> c2]
        ELSE IF ~IsOk(g.res)
             THEN [ret |-> SyscallError("bpf_map_update_elem", g.res.code, g.res.io_error),
                   table |-> g.table, calls |-> c3]
        ELSE [ret |-> Ok, table |-> g.table, calls |-> c3]

\* set that issues the update before it checks the bounds
set_updateFirst(m, t, cap, index, tcp_fd, flags) ==
    LET f == fd_or_err(m)
        b == check_bounds(m, index)
        g == bpf_map_update_elem(f.fd, index, tcp_fd, flags, t, cap)
        c1 == <<Call("fd_or_err", <<>>)>>
        c2 == c1 \o <<Call("bpf_map_update_elem", <<f.fd, index, tcp_fd, flags>>)>>
        c3 == c2 \o <<Call("check_bounds", <<index>>)>>
    IN  IF ~IsOk(f) THEN [ret |-> f, table |-> t, calls |-> c1]
        ELSE IF ~IsOk(g.res)
             THEN [ret |-> SyscallError("bpf_map_update_elem", g.res.code, g.res.io_error),
                   table |-> g.table, calls |-> c2]
        ELSE IF ~IsOk(b) THEN [ret |-> b, table |-> g.table, calls |-> c3]
        ELSE [ret |-> Ok, table |-> g.table, calls |-> c3]

\* SockMap::set: return value, kernel table afterwards, calls made
set(m, t, cap, index, tcp_fd, flags) ==
    LET f == fd_or_err(m)
        b == check_bounds(m, index)
        g == bpf_map_update_elem(f.fd, index, tcp_fd, flags, t, cap)
        c1 == <<Call("fd_or_err", <<>>)>>
        c2 == c1 \o <<Call("check_bounds", <<index>>)>>
        c3 == c2 \o <<Call("bpf_map_update_elem", <<f.fd, index, tcp_fd, flags>>)>>
    IN  IF ~IsOk(f) THEN [ret |-> f, table |-> t, calls |-> c1]
        ELSE IF ~IsOk(b) THEN [ret |-> b, table |-> t, calls |-> c2]
        ELSE IF ~IsOk(g.res)
             THEN [ret |-> SyscallError("bpf_map_update_elem", g.res.code, g.res.io_error),
                   table |-> g.table, calls |-> c3]
        ELSE [ret |-> Ok, table |-> g.table, calls |-> c3]

\* clear_index that treats a failed delete as success
clear_index_idempotent(m, t, cap, index) ==
    LET f == fd_or_err(m)
        b == check_bounds(m, index)
        g == bpf_map_delete_elem(f.fd, index, t, cap)
        c1 == <<Call("fd_or_err", <<>>)>>
        c2 == c1 \o <<Call("check_bounds", <<index>>)>>
        c3 == c2 \o <<Call("bpf_map_delete_elem", <<f.fd, index>>)>>
    IN  IF ~IsOk(f) THEN [ret |-> f, table |-> t, calls |-> c1]
        ELSE IF ~IsOk(b) THEN [ret |-> b, table |-> t, calls |-> c2]
        ELSE [ret |-> Ok, table |-> g.table, calls |-> c3]

\* SockMap::clear_index
clear_index(m, t, cap, index) ==
    LET f == fd_or_err(m)
        b == check_bounds(m, index)
        g == bpf_map_delete_elem(f.fd, index, t, cap)
        c1 == <<Call("fd_or_err", <<>>)>>
        c2 == c1 \o <<Call("check_bounds", <<index>>)>>
        c3 == c2 \o <<Call("bpf_map_delete_elem", <<f.fd, index>>)>>
    IN  IF ~IsOk(f) THEN [ret |-> f, table |-> t, calls |-> c1]
        ELSE IF ~IsOk(b) THEN [ret |-> b, table |-> t, calls |-> c2]
        ELSE IF ~IsOk(g.res)
             THEN [ret |-> SyscallError("bpf_map_delete_elem", g.res.code, g.res.io_error),
                   table |-> g.table, calls |-> c3]
        ELSE [ret |-> Ok, table |-> g.table, calls |-> c3]

\* SockMap::indices
indices(m, t, cap) == MapKeys(m, t, cap)

(* ------------------------- scenario of spec 8 -------------------------- *)

SetOp(i, v, fl) == [name |-> "set", index |-> i, tcp_fd |-> v, flags |-> fl]
ClearOp(i) == [name |-> "clear_index", index |-> i]

\* the calls of the concrete scenario, in order
Script == << SetOp(0, 10, 0), SetOp(5, 11, 0), ClearOp(0), ClearOp(0) >>

\* progress through Script after call `o`
Advance(s, o) ==
    IF s >= 0 /\ s < Len(Script) /\ o = Script[s + 1] THEN s + 1 ELSE -1

(* ------------------------------ actions ------------------------------- *)

EmptyTable == [k \in 0..(MaxCap - 1) |-> NoEntry]

Init ==
    /\ map \in [map_type : MapTypes, key_size : Sizes, value_size : Sizes,
                max_entries : Capacities, fd : {NoFd, MapFd}]
    /\ view = "none"
    /\ kcap = map.max_entries
    /\ table = EmptyTable
    /\ op = [name |-> "init"]
    /\ ret = Ok
    /\ calls = <<>>
    /\ held = {}
    /\ scenario = -1

\* TryFrom<MapRef> / TryFrom<MapRefMut>: SockMap::new(a)
New(mode) ==
    /\ view = "none"
    /\ op' = [name |-> "new", mode |-> mode]
    /\ ret' = new(map)
    /\ view' = IF IsOk(new(map)) THEN mode ELSE "none"
    /\ calls' = <<>>
    /\ scenario' = IF IsOk(new(map)) /\ mode = "MapRefMut" /\ map.max_entries = 4
                      /\ \A k \in 0..(kcap - 1) : table[k] = NoEntry
                   THEN 0 ELSE -1
    /\ UNCHANGED <<map, kcap, table, held>>

Set(index, tcp_fd, flags) ==
    /\ view = "MapRefMut"
    /\ LET r == set(map, table, kcap, index, tcp_fd, flags) IN
        /\ op' = SetOp(index, tcp_fd, flags)
        /\ ret' = r.ret
        /\ table' = r.table
        /\ calls' = r.calls
        /\ held' = IF IsOk(r.ret) THEN held \cup {index} ELSE held
    /\ scenario' = Advance(scenario, SetOp(index, tcp_fd, flags))
    /\ UNCHANGED <<map, view, kcap>>

ClearIndex(index) ==
    /\ view = "MapRefMut"
    /\ LET r == clear_index(map, table, kcap, index) IN
        /\ op' = ClearOp(index)
        /\ ret' = r.ret
        /\ table' = r.table
        /\ calls' = r.calls
        /\ held' = IF IsOk(r.ret) THEN held \ {index} ELSE held
    /\ scenario' = Advance(scenario, ClearOp(index))
    /\ UNCHANGED <<map, view, kcap>>

IndicesCall ==
    /\ view # "none"
    /\ op' = [name |-> "indices"]
    /\ ret' = indices(map, table, kcap)
    /\ calls' = <<>>
    /\ UNCHANGED <<map, view, kcap, table, held, scenario>>

\* the view goes out of scope: the handle is released, nothing else happens
Drop ==
    /\ view # "none"
    /\ view' = "none"
    /\ op' = [name |-> "drop"]
    /\ ret' = Ok
    /\ calls' = <<>>
    /\ scenario' = -1
    /\ UNCHANGED <<map, kcap, table, held>>

Next ==
    \/ \E mode \in {"MapRef", "MapRefMut"} : New(mode)
    \/ \E i \in Indices_, v \in TcpFds, fl \in Flags : Set(i, v, fl)
    \/ \E i \in Indices_ : ClearIndex(i)
    \/ IndicesCall
    \/ Drop

Spec == Init /\ [][Next]_vars

\* The handle is owned outside the view and `inner` is visible to the whole crate:
\* its descriptor may be taken away and its declared capacity rewritten at any time.
HandleChange ==
    /\ \E f \in {NoFd, MapFd}, n \in Capacities :
          map' = [map EXCEPT !.fd = f, !.max_entries = n]
    /\ map' # map
    /\ op' = [name |-> "handle_change"]
    /\ ret' = Ok
    /\ calls' = <<>>
    /\ scenario' = -1
    /\ UNCHANGED <<view, kcap, table, held>>

NextOpen == Next \/ HandleChange

\* as Spec, with the handle open to changes from outside the view
SpecOpen == Init /\ [][NextOpen]_vars

(* ------------------------------- claims ------------------------------- *)

MatchesSockMap(m) ==
    /\ m.map_type = BPF_MAP_TYPE_SOCKMAP
    /\ m.key_size = SizeOfU32
    /\ m.value_size = SizeOfRawFd

ToSet(s) == {s[k] : k \in 1..Len(s)}

\* the kernel calls among the calls of an operation
GatewayCalls(cs) ==
    SelectSeq(cs, LAMBDA c : c.call \in {"bpf_map_update_elem", "bpf_map_delete_elem"})

\* C1: construction over a handle whose type tag is not the sock map tag fails with
\* InvalidMapType carrying that tag and leaves no view, whatever the other fields are.
C1_WrongTypeRejected ==
    [][ (op'.name = "new" /\ map.map_type # BPF_MAP_TYPE_SOCKMAP)
          => (ret' = InvalidMapType(map.map_type) /\ view' = "none") ]_vars

C1_Witness ==
    /\ op.name = "new"
    /\ map.map_type # BPF_MAP_TYPE_SOCKMAP
    /\ map.key_size # SizeOfU32
    /\ map.value_size # SizeOfRawFd
    /\ map.fd = NoFd
    /\ ret = InvalidMapType(map.map_type)
    /\ view = "none"

\* C2 as stated: construction over any handle whose key size is not 4 fails with
\* InvalidKeySize{size, expected: 4}, also when the type tag is wrong.
C2_AsClaimed ==
    [][ (op'.name = "new" /\ map.key_size # SizeOfU32)
          => ret' = InvalidKeySize(map.key_size, SizeOfU32) ]_vars

\* C2 amended: construction over a handle with the sock map tag whose key size is not 4
\* fails with InvalidKeySize{size, expected: 4}, size being the declared key size,
\* whatever its value size and descriptor; no view is produced.
C2_KeySizeRejected ==
    [][ (op'.name = "new" /\ map.map_type = BPF_MAP_TYPE_SOCKMAP /\ map.key_size # SizeOfU32)
          => (ret' = InvalidKeySize(map.key_size, SizeOfU32) /\ view' = "none") ]_vars

C2_Witness ==
    /\ op.name = "new"
    /\ map.map_type = BPF_MAP_TYPE_SOCKMAP
    /\ map.key_size = 8
    /\ map.value_size # SizeOfRawFd
    /\ map.fd = NoFd
    /\ ret = InvalidKeySize(8, SizeOfU32)

\* C3 as stated: construction over any handle whose value size is not the descriptor
\* width fails with InvalidValueSize{size, expected: W}, also when the type tag or
\* the key size is wrong.
C3_AsClaimed ==
    [][ (op'.name = "new" /\ map.value_size # SizeOfRawFd)
          => ret' = InvalidValueSize(map.value_size, SizeOfRawFd) ]_vars

\* C3 amended: construction over a handle with the sock map tag and key size 4 whose
\* value size is not the descriptor width fails with InvalidValueSize{size, expected: W},
\* size being the declared value size, whether or not a descriptor is open.
C3_ValueSizeRejected ==
    [][ (op'.name = "new" /\ map.map_type = BPF_MAP_TYPE_SOCKMAP
            /\ map.key_size = SizeOfU32 /\ map.value_size # SizeOfRawFd)
          => (ret' = InvalidValueSize(map.value_size, SizeOfRawFd) /\ view' = "none") ]_vars

C3_Witness ==
    /\ op.name = "new"
    /\ map.map_type = BPF_MAP_TYPE_SOCKMAP
    /\ map.key_size = SizeOfU32
    /\ map.value_size = 2
    /\ map.fd = NoFd
    /\ ret = InvalidValueSize(2, SizeOfRawFd)

\* C4: on a valid view, with N the handle's max_entries when set is called, set(i, fd,
\* flags) returns OutOfBounds{i, N} without a kernel call when i >= N, and issues the
\* update call with key i itself when i < N.
C4_SetBounds ==
    [][ (op'.name = "set" /\ map.fd # NoFd) =>
          LET i == op'.index
              N == map.max_entries
          IN  /\ i >= N => /\ ret' = OutOfBounds(i, N)
                           /\ GatewayCalls(calls') = <<>>
              /\ i < N => /\ ret'.kind # "OutOfBounds"
                          /\ GatewayCalls(calls') =
                               << Call("bpf_map_update_elem",
                                       <<map.fd, i, op'.tcp_fd, op'.flags>>) >> ]_vars

\* set at index = max_entries, after the handle's max_entries moved away from the
\* capacity the map was created with
C4_Witness ==
    /\ op.name = "set"
    /\ view = "MapRefMut"
    /\ map.fd # NoFd
    /\ map.max_entries # kcap
    /\ op.index = map.max_entries
    /\ ret = OutOfBounds(op.index, map.max_entries)

\* C5: clear_index(i) with i < max_entries on an empty slot issues the delete call and
\* returns the kernel's "no such entry" failure as SyscallError with the call name, the
\* code and the I/O error.
C5_ClearEmptySlotFails ==
    [][ (op'.name = "clear_index" /\ op'.index < map.max_entries
            /\ table[op'.index] = NoEntry)
          => /\ ret' = SyscallError("bpf_map_delete_elem", -1, "ENOENT")
             /\ GatewayCalls(calls') =
                  << Call("bpf_map_delete_elem", <<map.fd, op'.index>>) >> ]_vars

C5_Witness ==
    /\ op.name = "clear_index"
    /\ op.index < map.max_entries
    /\ table[op.index] = NoEntry
    /\ \E k \in 0..(kcap - 1) : table[k] # NoEntry
    /\ ret.kind = "SyscallError"

\* C6 as stated: on a fresh view with max_entries = 4, set(0, 10, 0) returns Ok,
\* set(5, 11, 0) returns OutOfBounds{5, 4}, clear_index(0) returns Ok and a second
\* clear_index(0) returns SyscallError{call: "delete", ..}.
C6_AsClaimed ==
    (scenario \in 1..4 /\ op = Script[scenario]) =>
        CASE scenario = 1 -> ret = Ok
          [] scenario = 2 -> ret = OutOfBounds(5, 4)
          [] scenario = 3 -> ret = Ok
          [] scenario = 4 -> ret.kind = "SyscallError" /\ ret.call = "delete"

\* C6 amended: the same scenario, the last call returning
\* SyscallError{call: "bpf_map_delete_elem", ..}.
C6_Scenario ==
    (scenario \in 1..4 /\ op = Script[scenario]) =>
        CASE scenario = 1 -> ret = Ok
          [] scenario = 2 -> ret = OutOfBounds(5, 4)
          [] scenario = 3 -> ret = Ok
          [] scenario = 4 -> ret.kind = "SyscallError" /\ ret.call = "bpf_map_delete_elem"

C6_Witness ==
    /\ scenario = 4
    /\ op = Script[4]
    /\ ret.kind = "SyscallError"
    /\ map.max_entries = 4

\* C7: whenever a view exists, indices() yields, without repetition, exactly the
\* indices whose last successful call was a set; a call to indices() returns that
\* enumeration, so a second call with no write in between returns the same.
C7_IndicesAreHeld ==
    view # "none" =>
        LET r == indices(map, table, kcap) IN
            /\ r.error = "none"
            /\ ToSet(r.items) = held
            /\ Len(r.items) = Cardinality(held)
            /\ op.name = "indices" => ret = r

C7_Witness ==
    /\ op.name = "indices"
    /\ ret.items = <<1, 3>>
    /\ held = {1, 3}

\* C8: construction yields a view exactly when the type tag, key size and value size
\* match and a descriptor is open; a matching handle without descriptor is rejected
\* with MapNotLoaded; construction changes neither the handle nor the kernel table;
\* every view that exists wraps a handle satisfying all four conditions.
C8_ViewIffValid ==
    [][ /\ op'.name = "new" =>
              /\ (view' # "none") = (MatchesSockMap(map) /\ map.fd # NoFd)
              /\ (view' # "none") = (ret' = Ok)
              /\ (MatchesSockMap(map) /\ map.fd = NoFd) => ret' = MapNotLoaded
              /\ map' = map /\ kcap' = kcap /\ table' = table
        /\ view' # "none" => (MatchesSockMap(map') /\ map'.fd # NoFd) ]_vars

C8_Witness ==
    /\ op.name = "new"
    /\ MatchesSockMap(map)
    /\ map.fd = NoFd
    /\ ret = MapNotLoaded
    /\ view = "none"

\* C9: set and clear_index resolve the descriptor, then check the bounds, then issue
\* the kernel call: without descriptor they return MapNotLoaded before any bounds
\* check, an out-of-range index stops them before any kernel call, and otherwise
\* exactly one kernel call is made, with the caller's arguments.
C9_StepOrder ==
    [][ op'.name \in {"set", "clear_index"} =>
          LET i == op'.index
              gw == IF op'.name = "set"
                    THEN Call("bpf_map_update_elem", <<map.fd, i, op'.tcp_fd, op'.flags>>)
                    ELSE Call("bpf_map_delete_elem", <<map.fd, i>>)
          IN  IF map.fd = NoFd
              THEN ret' = MapNotLoaded /\ calls' = << Call("fd_or_err", <<>>) >>
              ELSE IF i >= map.max_entries
              THEN /\ ret'.kind = "OutOfBounds"
                   /\ calls' = << Call("fd_or_err", <<>>), Call("check_bounds", <<i>>) >>
              ELSE /\ ret'.kind \in {"Ok", "SyscallError"}
                   /\ calls' = << Call("fd_or_err", <<>>), Call("check_bounds", <<i>>), gw >>
      ]_vars

\* set with an out-of-range index on a handle whose descriptor is gone
C9_Witness ==
    /\ op.name = "set"
    /\ view = "MapRefMut"
    /\ map.fd = NoFd
    /\ op.index >= map.max_entries
    /\ ret = MapNotLoaded

\* C10: a set or clear_index that returns an error leaves the kernel table as it was;
\* one that succeeds changes the addressed slot only (set stores the given descriptor,
\* clear_index empties the slot); the handle is unchanged either way.
C10_AllOrNothing ==
    [][ op'.name \in {"set", "clear_index"} =>
          /\ map' = map /\ kcap' = kcap /\ view' = view
          /\ ret' # Ok => table' = table
          /\ ret' = Ok =>
               table' = [table EXCEPT ![op'.index] =
                            IF op'.name = "set" THEN op'.tcp_fd ELSE NoEntry]
      ]_vars

\* a set refused by the kernel on a table that already holds entries
C10_Witness ==
    /\ op.name = "set"
    /\ ret.kind = "SyscallError"
    /\ \E k \in 0..(kcap - 1) : table[k] # NoEntry

====
